---- MODULE Spec2Model ----
(***************************************************************************)
(* Model of the education content pipeline: the sequential orchestrator    *)
(* (createEducationGraph.invoke), the three stages (retrieveContext,       *)
(* generateTOC, generateChapterContent), the zod schemas they validate     *)
(* with, and the in-memory cache (SupabaseVectorStoreMemory).              *)
(*                                                                         *)
(* JavaScript values are tagged records [t, v]:                            *)
(*   "u" undefined, "null" null, "s" string, "n" number, "a" array         *)
(*   (v a sequence), "o" object (v a function from keys to values),        *)
(*   "j" a string that is the JSON text of the value v.                    *)
(***************************************************************************)
EXTENDS Integers, Sequences, FiniteSets, TLC

\* ------------------------------------------------------------------ values

JU == [t |-> "u", v |-> 0]
JNull == [t |-> "null", v |-> 0]
JS(s) == [t |-> "s", v |-> s]
JN(n) == [t |-> "n", v |-> n]
JA(q) == [t |-> "a", v |-> q]
JO(r) == [t |-> "o", v |-> r]
JText(x) == [t |-> "j", v |-> x]

IsStr(x) == x.t \in {"s", "j"}
IsNum(x) == x.t = "n"
IsArr(x) == x.t = "a"
IsObj(x) == x.t = "o"
IsUndef(x) == x.t = "u"

\* JavaScript truthiness.
Truthy(x) ==
    CASE x.t = "u" -> FALSE
      [] x.t = "null" -> FALSE
      [] x.t = "s" -> x.v # ""
      [] x.t = "n" -> x.v # 0
      [] OTHER -> TRUE

\* a || b
Or2(a, b) == IF Truthy(a) THEN a ELSE b

\* x.k for a value that is not null or undefined (a missing key reads undefined).
Get(x, k) == IF x.t = "o" /\ k \in DOMAIN x.v THEN x.v[k] ELSE JU

\* x.k throws a TypeError exactly when x is null or undefined.
CanRead(x) == x.t \notin {"u", "null"}

\* { ...x, k: y }
Put(x, k, y) == JO([kk \in DOMAIN x.v \cup {k} |-> IF kk = k THEN y ELSE x.v[kk]])

\* The keys of an object whose value is not undefined.
DefinedKeys(x) == {k \in DOMAIN x.v : x.v[k].t # "u"}

\* `${x}` for the values the templates of the stages are given.
ToStr(x) == IF x.t = "s" THEN x.v ELSE IF x.t = "u" THEN "undefined" ELSE "[object]"

\* q.map(F)
MapSeq(F(_), q) == [i \in 1..Len(q) |-> F(q[i])]

\* JSON.stringify: keys holding undefined are dropped, undefined array elements
\* become null; the result is a string.
RECURSIVE Canon(_)
Canon(x) ==
    CASE x.t = "a" -> JA([i \in 1..Len(x.v) |->
                            IF x.v[i].t = "u" THEN JNull ELSE Canon(x.v[i])])
      [] x.t = "o" -> JO([k \in DefinedKeys(x) |-> Canon(x.v[k])])
      [] x.t = "j" -> x
      [] OTHER -> x

Stringify(x) == JText(Canon(x))

\* JSON.parse succeeds on a JSON text only.
ParseOk(s) == s.t = "j"
Parse(s) == s.v

\* ----------------------------------------------------------------- schemas
\* zod: z.object accepts an object, checks the listed keys and drops the others
\* from the parsed data; .optional() accepts undefined; z.array checks each
\* element; z.any accepts everything.

AllOk(P(_), x) == IsArr(x) /\ \A i \in 1..Len(x.v) : P(x.v[i])
OptOk(P(_), x) == IsUndef(x) \/ P(x)
IsStrArr(x) == AllOk(IsStr, x)
IsAnyArr(x) == IsArr(x)

\* The parsed data of a z.object: the listed keys that are present, each parsed.
Keep(x, keys, F(_, _)) ==
    JO([k \in {kk \in keys : Get(x, kk).t # "u"} |-> F(k, x.v[k])])

QuizItemOk(x) ==
    /\ IsObj(x)
    /\ IsStr(Get(x, "question"))
    /\ IsStrArr(Get(x, "options"))
    /\ IsNum(Get(x, "correctAnswer"))

QuizItemData(x) == Keep(x, {"question", "options", "correctAnswer"}, LAMBDA k, y : y)

LessonSchemaOk(x) ==
    /\ IsObj(x)
    /\ IsStr(Get(x, "title"))
    /\ OptOk(IsStr, Get(x, "content"))
    /\ OptOk(LAMBDA q : AllOk(QuizItemOk, q), Get(x, "quiz"))

LessonSchemaData(x) ==
    Keep(x, {"title", "content", "quiz"},
         LAMBDA k, y : IF k = "quiz" THEN JA(MapSeq(QuizItemData, y.v)) ELSE y)

LessonEntryOk(x) == IsStr(x) \/ LessonSchemaOk(x)
LessonEntryData(x) == IF IsStr(x) THEN x ELSE LessonSchemaData(x)

ChapterSchemaOk(x) ==
    /\ IsObj(x)
    /\ IsStr(Get(x, "title"))
    /\ IsStr(Get(x, "description"))
    /\ AllOk(LessonEntryOk, Get(x, "lessons"))

ChapterSchemaData(x) ==
    Keep(x, {"title", "description", "lessons"},
         LAMBDA k, y : IF k = "lessons" THEN JA(MapSeq(LessonEntryData, y.v)) ELSE y)

SubTopicSchemaOk(x) ==
    /\ IsObj(x)
    /\ IsStr(Get(x, "title"))
    /\ IsStr(Get(x, "description"))
    /\ AllOk(ChapterSchemaOk, Get(x, "chapters"))

SubTopicSchemaData(x) ==
    Keep(x, {"title", "description", "chapters"},
         LAMBDA k, y : IF k = "chapters" THEN JA(MapSeq(ChapterSchemaData, y.v)) ELSE y)

\* TocSchema.safeParse(x).success
TocSchemaOk(x) ==
    /\ IsObj(x)
    /\ IsStr(Get(x, "mainTopic"))
    /\ IsStr(Get(x, "description"))
    /\ AllOk(SubTopicSchemaOk, Get(x, "subTopics"))

\* TocSchema.safeParse(x).data
TocSchemaData(x) ==
    Keep(x, {"mainTopic", "description", "subTopics"},
         LAMBDA k, y : IF k = "subTopics" THEN JA(MapSeq(SubTopicSchemaData, y.v)) ELSE y)

\* The object form of MainTopic / "Main Topic" in AlternativeTocSchema.
AltChapterOk(x) ==
    /\ IsObj(x)
    /\ IsStr(Get(x, "Title"))
    /\ IsStr(Get(x, "Description"))
    /\ IsStrArr(Get(x, "Lessons"))

AltSubtopicOk(x) ==
    /\ IsObj(x)
    /\ IsStr(Get(x, "Title"))
    /\ IsStr(Get(x, "Description"))
    /\ AllOk(AltChapterOk, Get(x, "Chapters"))

AltMainTopicOk(x) ==
    /\ IsObj(x)
    /\ IsStr(Get(x, "Title"))
    /\ IsStr(Get(x, "Description"))
    /\ AllOk(AltSubtopicOk, Get(x, "Subtopics"))

AltChapterData(x) == Keep(x, {"Title", "Description", "Lessons"}, LAMBDA k, y : y)

AltSubtopicData(x) ==
    Keep(x, {"Title", "Description", "Chapters"},
         LAMBDA k, y : IF k = "Chapters" THEN JA(MapSeq(AltChapterData, y.v)) ELSE y)

AltMainTopicData(x) ==
    Keep(x, {"Title", "Description", "Subtopics"},
         LAMBDA k, y : IF k = "Subtopics" THEN JA(MapSeq(AltSubtopicData, y.v)) ELSE y)

AltStringKeys ==
    {"mainTopic", "Course Title", "course title", "courseTitle", "Course Description",
     "course description", "courseDescription", "description", "Description"}

AltArrayKeys == {"Subtopics", "subtopics", "topics", "Topics", "Sub-Topics", "sub-topics"}

AltObjectKeys == {"MainTopic", "Main Topic"}

\* AlternativeTocSchema.safeParse(x).success
AlternativeTocSchemaOk(x) ==
    /\ IsObj(x)
    /\ \A k \in AltStringKeys : OptOk(IsStr, Get(x, k))
    /\ \A k \in AltObjectKeys : OptOk(AltMainTopicOk, Get(x, k))
    /\ OptOk(LAMBDA y : AllOk(SubTopicSchemaOk, y), Get(x, "subTopics"))
    /\ \A k \in AltArrayKeys : OptOk(IsAnyArr, Get(x, k))

\* AlternativeTocSchema.safeParse(x).data
AlternativeTocSchemaData(x) ==
    Keep(x, AltStringKeys \cup AltObjectKeys \cup AltArrayKeys \cup {"subTopics"},
         LAMBDA k, y : IF k \in AltObjectKeys THEN AltMainTopicData(y)
                       ELSE IF k = "subTopics" THEN JA(MapSeq(SubTopicSchemaData, y.v))
                       ELSE y)

\* ------------------------------------------------- generateTOC: normalization

\* a || b || ... : the first truthy operand, or the last one.
RECURSIVE OrChain(_)
OrChain(q) == IF Len(q) = 1 \/ Truthy(q[1]) THEN q[1] ELSE OrChain(Tail(q))

\* `Educational content about ${state.topic}`
DefaultDescription(state) == JS("Educational content about " \o ToStr(Get(state, "topic")))

\* The MainTopic / "Main Topic" object converted to subTopics.
ConvertAltChapter(ch) ==
    JO([title |-> Get(ch, "Title"),
        description |-> Get(ch, "Description"),
        lessons |-> IF IsArr(Get(ch, "Lessons")) THEN Get(ch, "Lessons") ELSE JA(<<>>)])

ConvertAltSubtopic(st) ==
    JO([title |-> Get(st, "Title"),
        description |-> Get(st, "Description"),
        chapters |-> IF IsArr(Get(st, "Chapters"))
                     THEN JA(MapSeq(ConvertAltChapter, Get(st, "Chapters").v))
                     ELSE JA(<<>>)])

ConvertMainTopicObject(mt) ==
    IF IsArr(Get(mt, "Subtopics"))
    THEN JA(MapSeq(ConvertAltSubtopic, Get(mt, "Subtopics").v))
    ELSE JA(<<>>)

\* The "Course Title" format: subtopics, chapters and lessons under several names.
CourseChaptersArray(st) ==
    OrChain(<<Get(st, "chapters"), Get(st, "Chapters"), Get(st, "sections"),
              Get(st, "Sections"), JA(<<>>)>>)

ConvertCourseChapter(ch) ==
    JO([title |-> OrChain(<<Get(ch, "title"), Get(ch, "Title"), Get(ch, "name"),
                            Get(ch, "Name"), JS("")>>),
        description |-> OrChain(<<Get(ch, "description"), Get(ch, "Description"),
                                  Get(ch, "desc"), Get(ch, "summary"), JS("")>>),
        lessons |-> IF IsArr(OrChain(<<Get(ch, "lessons"), Get(ch, "Lessons"), JA(<<>>)>>))
                    THEN OrChain(<<Get(ch, "lessons"), Get(ch, "Lessons"), JA(<<>>)>>)
                    ELSE JA(<<>>)])

ConvertCourseSubtopic(st) ==
    JO([title |-> OrChain(<<Get(st, "title"), Get(st, "Title"), Get(st, "name"),
                            Get(st, "Name"), JS("")>>),
        description |-> OrChain(<<Get(st, "description"), Get(st, "Description"),
                                  Get(st, "desc"), Get(st, "summary"), JS("")>>),
        chapters |-> IF IsArr(CourseChaptersArray(st))
                     THEN JA(MapSeq(ConvertCourseChapter, CourseChaptersArray(st).v))
                     ELSE JA(<<>>)])

CourseSubtopicsArray(data) ==
    OrChain(<<Get(data, "subtopics"), Get(data, "Subtopics"), Get(data, "topics"),
              Get(data, "Topics"), Get(data, "Sub-Topics"), Get(data, "sub-topics"),
              JA(<<>>)>>)

\* st.title / ch.title throw a TypeError on a null element.
CourseSubtopicThrows(st) ==
    \/ ~CanRead(st)
    \/ /\ IsArr(CourseChaptersArray(st))
       /\ \E i \in 1..Len(CourseChaptersArray(st).v) : ~CanRead(CourseChaptersArray(st).v[i])

CourseTitleOf(data) ==
    OrChain(<<Get(data, "Course Title"), Get(data, "course title"), Get(data, "courseTitle")>>)

\* The subTopics branch: lesson objects are replaced by their titles.
ConvertStdChapter(ch) ==
    JO([title |-> Get(ch, "title"),
        description |-> Get(ch, "description"),
        lessons |-> JA(MapSeq(LAMBDA l : IF IsStr(l) THEN l ELSE Get(l, "title"),
                              Get(ch, "lessons").v))])

ConvertStdSubtopic(st) ==
    JO([title |-> Get(st, "title"),
        description |-> Get(st, "description"),
        chapters |-> JA(MapSeq(ConvertStdChapter, Get(st, "chapters").v))])

\* Which branch of the conversion the parsed alternative data takes.
AltBranch(data) ==
    IF Truthy(Get(data, "MainTopic")) THEN "MainTopic"
    ELSE IF Truthy(Get(data, "Main Topic")) THEN "Main Topic"
    ELSE IF Truthy(CourseTitleOf(data)) THEN "Course Title"
    ELSE IF Truthy(Get(data, "subTopics")) THEN "subTopics"
    ELSE "none"

AltMainTopic(data) ==
    CASE AltBranch(data) \in AltObjectKeys -> Get(Get(data, AltBranch(data)), "Title")
      [] AltBranch(data) = "Course Title" -> CourseTitleOf(data)
      [] OTHER -> Get(data, "mainTopic")

AltDescription(data, state) ==
    CASE AltBranch(data) \in AltObjectKeys -> Get(Get(data, AltBranch(data)), "Description")
      [] AltBranch(data) = "Course Title" ->
            OrChain(<<Get(data, "Course Description"), Get(data, "course description"),
                      Get(data, "courseDescription"), DefaultDescription(state)>>)
      [] OTHER -> Or2(Get(data, "description"), Get(data, "Description"))

AltSubTopics(data) ==
    CASE AltBranch(data) \in AltObjectKeys ->
            ConvertMainTopicObject(Get(data, AltBranch(data)))
      [] AltBranch(data) = "Course Title" ->
            IF IsArr(CourseSubtopicsArray(data)) /\ Len(CourseSubtopicsArray(data).v) > 0
            THEN JA(MapSeq(ConvertCourseSubtopic, CourseSubtopicsArray(data).v))
            ELSE JA(<<>>)
      [] AltBranch(data) = "subTopics" ->
            JA(MapSeq(ConvertStdSubtopic, Get(data, "subTopics").v))
      [] OTHER -> JA(<<>>)

\* The conversion throws inside the Course Title branch on a null element.
AltConversionThrows(data) ==
    /\ AltBranch(data) = "Course Title"
    /\ IsArr(CourseSubtopicsArray(data))
    /\ \E i \in 1..Len(CourseSubtopicsArray(data).v) :
          CourseSubtopicThrows(CourseSubtopicsArray(data).v[i])

\* normalizedTocData built from the alternative format.
AltNormalized(data, state) ==
    JO([mainTopic |-> Or2(AltMainTopic(data), Get(state, "topic")),
        description |-> Or2(AltDescription(data, state), DefaultDescription(state)),
        subTopics |-> AltSubTopics(data)])

\* The minimal valid structure of the catch block.
SyntheticStub(state) ==
    JO([mainTopic |-> Get(state, "topic"),
        description |-> DefaultDescription(state),
        subTopics |-> JA(<<
            JO([title |-> JS("Understanding " \o ToStr(Get(state, "topic"))),
                description |-> JS("Learn about " \o ToStr(Get(state, "topic"))),
                chapters |-> JA(<<
                    JO([title |-> JS("Introduction"),
                        description |-> JS("Basic introduction to "
                                           \o ToStr(Get(state, "topic"))),
                        lessons |-> JA(<<JS("What is it?"), JS("Why is it important?"),
                                         JS("Key concepts")>>)])>>)])>>)])

\* Which tier produced normalizedTocData: "strict", "alternative" or "stub".
TocTier(tocData, state) ==
    IF TocSchemaOk(tocData) THEN "strict"
    ELSE IF /\ AlternativeTocSchemaOk(tocData)
            /\ ~AltConversionThrows(AlternativeTocSchemaData(tocData))
            /\ TocSchemaOk(AltNormalized(AlternativeTocSchemaData(tocData), state))
         THEN "alternative"
    ELSE "stub"

\* normalizedTocData after the try/catch of generateTOC.
NormalizeToc(tocData, state) ==
    CASE TocTier(tocData, state) = "strict" -> TocSchemaData(tocData)
      [] TocTier(tocData, state) = "alternative" ->
            AltNormalized(AlternativeTocSchemaData(tocData), state)
      [] OTHER -> SyntheticStub(state)

\* The check of mainTopic and subTopics that follows the normalization.
TocStructureInvalid(toc) ==
    \/ ~Truthy(Get(toc, "mainTopic"))
    \/ ~Truthy(Get(toc, "subTopics"))
    \/ ~IsArr(Get(toc, "subTopics"))

\* ------------------------------------ generateChapterContent: normalization

TitledOk(x) == IsObj(x) /\ IsStr(Get(x, "title")) /\ IsStr(Get(x, "description"))
TitledData(x) == Keep(x, {"title", "description"}, LAMBDA k, y : y)

MemoryCardOk(x) ==
    /\ TitledOk(x)
    /\ OptOk(IsStr, Get(x, "situation"))
    /\ OptOk(IsStr, Get(x, "response"))

MemoryCardData(x) ==
    Keep(x, {"title", "description", "situation", "response"}, LAMBDA k, y : y)

OpenEndedOk(x) == IsObj(x) /\ IsStr(Get(x, "title")) /\ OptOk(IsStr, Get(x, "description"))

RichLessonOk(x) ==
    /\ IsObj(x)
    /\ TitledOk(Get(x, "lessonInfo"))
    /\ TitledOk(Get(x, "videoScript"))
    /\ OptOk(LAMBDA y : AllOk(MemoryCardOk, y), Get(x, "memoryCards"))
    /\ OptOk(LAMBDA y : AllOk(QuizItemOk, y), Get(x, "quizCards"))
    /\ OptOk(OpenEndedOk, Get(x, "openEndedQuestion"))
    /\ OptOk(LAMBDA y : AllOk(OpenEndedOk, y), Get(x, "openEndedQuestions"))

RichLessonData(x) ==
    Keep(x, {"lessonInfo", "videoScript", "memoryCards", "quizCards",
             "openEndedQuestion", "openEndedQuestions"},
         LAMBDA k, y :
            CASE k \in {"lessonInfo", "videoScript", "openEndedQuestion"} -> TitledData(y)
              [] k = "memoryCards" -> JA(MapSeq(MemoryCardData, y.v))
              [] k = "quizCards" -> JA(MapSeq(QuizItemData, y.v))
              [] OTHER -> JA(MapSeq(TitledData, y.v)))

\* LessonContentSchema.safeParse(x).success / .data.lessons
LessonContentSchemaOk(x) == IsObj(x) /\ AllOk(RichLessonOk, Get(x, "lessons"))
LessonContentSchemaLessons(x) == JA(MapSeq(RichLessonData, Get(x, "lessons").v))

\* AlternativeLessonContentSchema.safeParse(x).success (catchall keeps every key)
AlternativeLessonContentSchemaOk(x) ==
    /\ IsObj(x)
    /\ OptOk(IsAnyArr, Get(x, "lessons"))
    /\ OptOk(IsAnyArr, Get(x, "Lessons"))

\* alternativeParsed.data.lessons || alternativeParsed.data.Lessons || []
LessonArray(x) == OrChain(<<Get(x, "lessons"), Get(x, "Lessons"), JA(<<>>)>>)

HasNewStructureNever(lesson) == FALSE

\* The lesson already has the new structure and is returned as it is.
HasNewStructure(lesson) ==
    /\ Truthy(Get(lesson, "lessonInfo"))
    /\ \/ Truthy(Get(lesson, "memoryCards"))
       \/ Truthy(Get(lesson, "quizCards"))
       \/ Truthy(Get(lesson, "openEndedQuestion"))
       \/ Truthy(Get(lesson, "openEndedQuestions"))

LessonContentOf(lesson) == OrChain(<<Get(lesson, "content"), Get(lesson, "Content"), JS("")>>)

QuizArrayOf(lesson) ==
    OrChain(<<Get(lesson, "quiz"), Get(lesson, "Quiz"), Get(lesson, "questions"),
              Get(lesson, "Questions"), JA(<<>>)>>)

NormalizeQuizItem(q) ==
    JO([question |-> OrChain(<<Get(q, "question"), Get(q, "Question"), JS("")>>),
        options |-> IF IsArr(Get(q, "options")) THEN Get(q, "options")
                    ELSE IF IsArr(Get(q, "Options")) THEN Get(q, "Options")
                    ELSE IF IsArr(Get(q, "choices")) THEN Get(q, "choices")
                    ELSE JA(<<>>),
        correctAnswer |-> IF IsNum(Get(q, "correctAnswer")) THEN Get(q, "correctAnswer")
                          ELSE IF IsNum(Get(q, "CorrectAnswer")) THEN Get(q, "CorrectAnswer")
                          ELSE IF IsNum(Get(q, "correct")) THEN Get(q, "correct")
                          ELSE JN(0)])

NormalizedQuiz(lesson) ==
    IF IsArr(QuizArrayOf(lesson)) THEN JA(MapSeq(NormalizeQuizItem, QuizArrayOf(lesson).v))
    ELSE JA(<<>>)

\* content.substring(0, 100) + '...'
BriefDescription(content) ==
    JS((IF Len(content.v) <= 100 THEN content.v ELSE SubSeq(content.v, 1, 100)) \o "...")

FeedbackQuestion ==
    JO([title |-> JS("Was this lesson easy to understand?"),
        description |-> JS("Yes / Mostly / Some parts / No")])

\* The conversion of one lesson throws a TypeError: on a null lesson, a null quiz
\* item, a content that is no string, or a missing videoScript.
ConvertLessonThrows(lesson) ==
    \/ ~CanRead(lesson)
    \/ /\ ~HasNewStructure(lesson)
       /\ \/ ~IsStr(LessonContentOf(lesson))
          \/ /\ IsArr(QuizArrayOf(lesson))
             /\ \E i \in 1..Len(QuizArrayOf(lesson).v) : ~CanRead(QuizArrayOf(lesson).v[i])
          \/ ~CanRead(Get(lesson, "videoScript"))

ConvertLesson(lesson) ==
    IF HasNewStructure(lesson) THEN lesson
    ELSE JO([lessonInfo |->
                JO([title |-> OrChain(<<Get(lesson, "title"), Get(lesson, "Title"),
                                        Get(lesson, "name"), Get(lesson, "Name"), JS("")>>),
                    description |-> BriefDescription(LessonContentOf(lesson))]),
             videoScript |->
                JO([title |-> Or2(Get(Get(lesson, "videoScript"), "title"), JS("")),
                    description |-> Or2(Get(Get(lesson, "videoScript"), "description"),
                                        JS(""))]),
             memoryCards |->
                JA(<<JO([title |-> JS("Content Summary"),
                         description |-> LessonContentOf(lesson)])>>),
             quizCards |-> NormalizedQuiz(lesson),
             openEndedQuestion |-> FeedbackQuestion])

\* The default structure of the inner catch (normalization failed).
NormalizationErrorLesson ==
    JO([lessonInfo |-> JO([title |-> JS("Error generating content"),
                           description |-> JS("There was an error generating the lesson content.")]),
        memoryCards |-> JA(<<JO([title |-> JS("Error"),
                                 description |-> JS("The API response format may have changed or the content generation failed.")])>>),
        quizCards |-> JA(<<>>)])

\* The default structure of the outer catch (the chain threw).
ChainErrorLesson ==
    JO([lessonInfo |-> JO([title |-> JS("Error in content generation"),
                           description |-> JS("Error: llm failure")]),
        memoryCards |-> JA(<<JO([title |-> JS("Technical Details"),
                                 description |-> JS("stack")])>>),
        quizCards |-> JA(<<>>)])

\* Which tier produced the lessons of a chapter: "strict", "alternative" or "error".
LessonTier(chapterData) ==
    IF LessonContentSchemaOk(chapterData) THEN "strict"
    ELSE IF /\ AlternativeLessonContentSchemaOk(chapterData)
            /\ \A i \in 1..Len(LessonArray(chapterData).v) :
                  ~ConvertLessonThrows(LessonArray(chapterData).v[i])
         THEN "alternative"
    ELSE "error"

NormalizeLessons(chapterData) ==
    CASE LessonTier(chapterData) = "strict" -> LessonContentSchemaLessons(chapterData)
      [] LessonTier(chapterData) = "alternative" ->
            JA(MapSeq(ConvertLesson, LessonArray(chapterData).v))
      [] OTHER -> JA(<<NormalizationErrorLesson>>)

\* processedChapter for a response of the chain.
ChapterFromResponse(chapter, chapterData) ==
    JO([title |-> Get(chapter, "title"),
        description |-> Get(chapter, "description"),
        lessons |-> NormalizeLessons(chapterData)])

\* processedChapter when the chain threw.
ChapterFromChainError(chapter) ==
    JO([title |-> Get(chapter, "title"),
        description |-> Get(chapter, "description"),
        lessons |-> JA(<<ChainErrorLesson>>)])

\* ------------------------------------------------------------------- cache
\* SupabaseVectorStoreMemory: memoryCache maps `${sessionId}:${input}` to the
\* stored output. Each node module builds its own instance.

TocSessionId == "toc-session"
ContentSessionId == "content-session"

getMemoryKey(sessionId, input) == sessionId \o ":" \o input

\* loadMemoryVariables({ input }).history
loadMemoryVariables(memoryCache, sessionId, input) ==
    IF input = "" THEN JS("")
    ELSE IF getMemoryKey(sessionId, input) \in DOMAIN memoryCache
         THEN Or2(memoryCache[getMemoryKey(sessionId, input)], JS(""))
         ELSE JS("")

\* saveContext({ input }, { output }): memoryCache after the call.
saveContext(memoryCache, sessionId, input, output) ==
    IF input = "" \/ ~Truthy(output) THEN memoryCache
    ELSE [k \in DOMAIN memoryCache \cup {getMemoryKey(sessionId, input)} |->
            IF k = getMemoryKey(sessionId, input) THEN output ELSE memoryCache[k]]

\* const memoryKey = `${subtopic.title}-${chapter.title}`
MemoryKey(subtopic, chapter) ==
    ToStr(Get(subtopic, "title")) \o "-" \o ToStr(Get(chapter, "title"))

\* --------------------------------------------------------------- messages

HumanMessage(text) == JO([role |-> JS("human"), content |-> text])
AIMessage(text) == JO([role |-> JS("ai"), content |-> text])

AppendPairDropsHistory(state, a, b) == JA(<<a, b>>)

\* [...(state.history || []), a, b]
AppendPair(state, a, b) == JA(Or2(Get(state, "history"), JA(<<>>)).v \o <<a, b>>)

\* --------------------------------------------------------- retrieveContext

ContextProvidedNever(state) == FALSE

\* if (state.context && state.context.length > 0)
ContextProvided(state) ==
    Truthy(Get(state, "context")) /\ Len(Get(state, "context").v) > 0

\* searchVectorStore(state.topic, 5)
SearchK == 5

SearchCatchKeepsFailure(out) == IF out.threw THEN <<JS("Error: search failed")>> ELSE out.docs

\* documents: what searchVectorStore(...).catch(error => []) resolves to.
SearchCatch(out) == IF out.threw THEN <<>> ELSE out.docs

\* The state returned when the search was made: `found` is what
\* searchVectorStore(...).catch(() => []) resolved to.
RetrieveContextResult(state, found) == Put(state, "context", JA(found))

\* ------------------------------------------------------------- generateTOC

TocLlmFailedContinues(state) ==
    Put(Put(Put(state, "mainTopic", Get(SyntheticStub(state), "mainTopic")),
            "description", Get(SyntheticStub(state), "description")),
        "toc", SyntheticStub(state))

TocLlmFailedKeepsTopicOnly(state) ==
    JO([topic |-> Get(state, "topic"), error |-> JS("Failed to generate TOC: llm failure")])

\* The state returned by the catch around tocChain.invoke.
TocLlmFailed(state) == Put(state, "error", JS("Failed to generate TOC: llm failure"))

TocInvalidState(state) ==
    Put(state, "error", JS("Invalid TOC data structure. API response format may have changed."))

\* updatedState
TocUpdatedState(state, toc) ==
    Put(Put(Put(Put(state, "mainTopic", Get(toc, "mainTopic")),
                "description", Get(toc, "description")),
            "toc", toc),
        "history", AppendPair(state,
                              HumanMessage(JS("Generate TOC for " \o ToStr(Get(state, "topic")))),
                              AIMessage(Stringify(toc))))

\* generateTOC(state): llm is what tocChain.invoke did, saveOk whether
\* memory.saveContext returned. how: "llm-threw" (the catch around the chain
\* returned), "invalid" (the structure check returned), "save-threw" (the
\* exception of memory.saveContext left the stage), "ok" (updatedState).
GenerateTOCResult(state, llm, saveOk) ==
    IF llm.threw THEN [how |-> "llm-threw", state |-> TocLlmFailed(state)]
    ELSE IF TocStructureInvalid(NormalizeToc(llm.data, state))
         THEN [how |-> "invalid", state |-> TocInvalidState(state)]
    ELSE IF ~saveOk THEN [how |-> "save-threw", state |-> state]
    ELSE [how |-> "ok", state |-> TocUpdatedState(state, NormalizeToc(llm.data, state))]

\* ------------------------------------------------------------ orchestrator

NoResult == [kind |-> "none", value |-> JU]
Returned(v) == [kind |-> "returned", value |-> v]
Threw == [kind |-> "threw", value |-> JU]

\* const state = { topic, context, memory, history, ...(input || {}) }
InitialState(input) ==
    JO([k \in {"topic", "context", "memory", "history"} \cup DOMAIN input.v |->
          IF k \in DOMAIN input.v THEN input.v[k]
          ELSE CASE k = "topic" -> JS("")
                 [] k = "context" -> JA(<<>>)
                 [] k = "memory" -> JO(<<>>)
                 [] OTHER -> JA(<<>>)])

InvokeRethrows(state) == Threw

InvokeCatchKeepsState(state) == Returned(state)

\* The catch of invoke: { ...state, error }
InvokeCatch(state) ==
    Returned(Put(state, "error", JS("Failed to process educational content: Error")))

\* if (!tocState.toc)
TocMissing(tocState) == ~Truthy(Get(tocState, "toc"))

TocMissingResult(tocState) ==
    Returned(Put(tocState, "error", JS("TOC data was not generated properly")))

\* -------------------------------------------------- generateChapterContent

\* The last message of history, when history has at least two messages.
LastMessage(state) ==
    IF IsArr(Get(state, "history")) /\ Len(Get(state, "history").v) >= 2
    THEN Get(state, "history").v[Len(Get(state, "history").v)]
    ELSE JU

\* The TOC data read from the last message, or undefined when there is none
\* or JSON.parse threw.
RecoveredTocData(state) ==
    IF ~Truthy(LastMessage(state)) \/ ~Truthy(Get(LastMessage(state), "content")) THEN JU
    ELSE IF IsStr(Get(LastMessage(state), "content"))
         THEN IF ParseOk(Get(LastMessage(state), "content"))
              THEN Parse(Get(LastMessage(state), "content"))
              ELSE JU
    ELSE Get(LastMessage(state), "content")

\* state after the attempt to recover a missing toc from history.
RecoverToc(state) ==
    IF Truthy(Get(state, "toc")) \/ ~TocSchemaOk(RecoveredTocData(state)) THEN state
    ELSE Put(Put(Put(state, "toc", TocSchemaData(RecoveredTocData(state))),
                 "mainTopic", Get(TocSchemaData(RecoveredTocData(state)), "mainTopic")),
             "description", Get(TocSchemaData(RecoveredTocData(state)), "description"))

ContentTocMissingState(state) ==
    Put(state, "error",
        JS("TOC data missing. Cannot generate educational content without structure."))

\* fullContent before the subtopics are processed.
FullContent(state) ==
    Or2(Get(state, "generatedContent"),
        JO([mainTopic |-> Or2(Get(state, "mainTopic"), Get(Get(state, "toc"), "mainTopic")),
            description |-> Or2(Get(state, "description"),
                                Get(Get(state, "toc"), "description")),
            subTopics |-> JA(<<>>)]))

NewTaskNeverScheduled(subtopic) ==
    [pcT |-> "unscheduled", subtopic |-> subtopic, ci |-> 1, chapters |-> <<>>,
     pending |-> JU, log |-> <<>>]

\* One subtopic task: the async callback of state.toc.subTopics.map.
\* pcT is where the task is suspended: "read" (memory.loadMemoryVariables),
\* "search" (searchVectorStore), "llm" (chapterChain.invoke), "save"
\* (memory.saveContext), or settled: "resolved", "rejected".
NewTask(subtopic) ==
    [pcT |-> IF Len(Get(subtopic, "chapters").v) = 0 THEN "resolved" ELSE "read",
     subtopic |-> subtopic,
     ci |-> 1,
     chapters |-> <<>>,
     pending |-> JU,
     log |-> <<>>]

CurrentChapter(t) == Get(t.subtopic, "chapters").v[t.ci]

PushedWithoutChapter(t, processedChapter, entry) ==
    [t EXCEPT !.pending = JU,
              !.log = Append(t.log, entry),
              !.ci = IF t.ci = Len(Get(t.subtopic, "chapters").v) THEN t.ci ELSE t.ci + 1,
              !.pcT = IF t.ci = Len(Get(t.subtopic, "chapters").v) THEN "resolved"
                      ELSE "read"]

PushedRetriesFailure(t, processedChapter, entry) ==
    IF processedChapter = ChapterFromChainError(CurrentChapter(t))
    THEN [t EXCEPT !.pending = JU, !.pcT = "llm"]
    ELSE [t EXCEPT !.chapters = Append(t.chapters, processedChapter),
                   !.pending = JU,
                   !.log = Append(t.log, entry),
                   !.ci = IF t.ci = Len(Get(t.subtopic, "chapters").v) THEN t.ci ELSE t.ci + 1,
                   !.pcT = IF t.ci = Len(Get(t.subtopic, "chapters").v) THEN "resolved"
                           ELSE "read"]

\* processedSubtopic.chapters.push(processedChapter), then the next chapter or
\* the end of the callback.
Pushed(t, processedChapter, entry) ==
    [t EXCEPT !.chapters = Append(t.chapters, processedChapter),
              !.pending = JU,
              !.log = Append(t.log, entry),
              !.ci = IF t.ci = Len(Get(t.subtopic, "chapters").v) THEN t.ci ELSE t.ci + 1,
              !.pcT = IF t.ci = Len(Get(t.subtopic, "chapters").v) THEN "resolved"
                      ELSE "read"]

\* The value the callback returns.
ProcessedSubtopic(t) ==
    JO([title |-> Get(t.subtopic, "title"),
        description |-> Get(t.subtopic, "description"),
        chapters |-> JA(t.chapters)])

\* cachedResult.history for the chapter a task is at.
CachedEntry(memoryCache, t) ==
    loadMemoryVariables(memoryCache, ContentSessionId, MemoryKey(t.subtopic, CurrentChapter(t)))

CachedChapterUnparsed(memoryCache, t) == CachedEntry(memoryCache, t)

\* What the cache lookup of a chapter yields: the cached chapter, or undefined
\* / null when there is nothing usable (no entry, or an entry JSON.parse rejects).
CachedChapter(memoryCache, t) ==
    IF ~Truthy(loadMemoryVariables(memoryCache, ContentSessionId,
                                   MemoryKey(t.subtopic, CurrentChapter(t))))
    THEN JU
    ELSE IF ParseOk(loadMemoryVariables(memoryCache, ContentSessionId,
                                        MemoryKey(t.subtopic, CurrentChapter(t))))
         THEN Parse(loadMemoryVariables(memoryCache, ContentSessionId,
                                        MemoryKey(t.subtopic, CurrentChapter(t))))
    ELSE JNull

PromiseAllBySettleOrder(ts, order) == [k \in 1..Len(ts) |-> ProcessedSubtopic(ts[order[k]])]

\* await Promise.all(subtopicPromises): the values in the order of the promises.
PromiseAll(ts, order) == [i \in 1..Len(ts) |-> ProcessedSubtopic(ts[i])]

\* fullContent.subTopics = processedSubtopics: fullContent is the object
\* state.generatedContent when the state came with one (the spreads of the
\* stages copy the reference), so the state the stage was given is changed too.
AssignSubTopics(state, processedSubtopics) ==
    IF Truthy(Get(state, "generatedContent"))
    THEN Put(state, "generatedContent",
             Put(Get(state, "generatedContent"), "subTopics", JA(processedSubtopics)))
    ELSE state

\* The state generateChapterContent returns.
ContentResult(state, processedSubtopics) ==
    Put(Put(state, "generatedContent",
            Put(FullContent(state), "subTopics", JA(processedSubtopics))),
        "history",
        AppendPair(state,
                   HumanMessage(JS("Generated content for "
                                   \o ToString(Len(processedSubtopics)) \o " subtopics")),
                   AIMessage(Stringify(JO([status |-> JS("success"),
                                           subtopicsCount |-> JN(Len(processedSubtopics))])))))

\* ------------------------------------------------------------------ bounds

\* Calls of invoke in one behaviour of SpecRerun (the caches outlive a call).
MaxRuns == 2

\* ------------------------------------------------------ inputs and replies

Doc == JO([pageContent |-> JS("doc")])

Chap(title, lessons) ==
    JO([title |-> JS(title), description |-> JS("cd"), lessons |-> JA(lessons)])

Sub(title, chapters) ==
    JO([title |-> JS(title), description |-> JS("sd"), chapters |-> JA(chapters)])

Toc(subTopics) ==
    JO([mainTopic |-> JS("M"), description |-> JS("D"), subTopics |-> JA(subTopics)])

\* Replies of the LLM to the TOC prompt (after JSON.parse of the message).
TocTwoSubtopics ==
    Toc(<<Sub("A", <<Chap("c1", <<JS("l1"), JS("l2")>>), Chap("c2", <<JS("l1")>>)>>),
          Sub("B", <<Chap("c1", <<JS("l1")>>)>>)>>)

TocSeparatorTitles ==
    Toc(<<Sub("a-b", <<Chap("c", <<JS("l1")>>)>>), Sub("a", <<Chap("b-c", <<JS("l1")>>)>>)>>)

TocRepeatedTitles ==
    Toc(<<Sub("A", <<Chap("c1", <<JS("l1")>>), Chap("c1", <<JS("l2")>>)>>)>>)

TocNoSubtopics == Toc(<<>>)

TocNoLessons == Toc(<<Sub("A", <<Chap("c1", <<>>)>>)>>)

ParseFailure == JO([error |-> JS("Failed to parse response")])

TocMainTopicAlias ==
    JO([MainTopic |-> JO([Title |-> JS("X"), Description |-> JS("Y"), Subtopics |-> JA(<<>>)])])

TocCourseTitle ==
    JO([courseTitle |-> JS("C"),
        topics |-> JA(<<JO([name |-> JS("A"),
                            sections |-> JA(<<JO([name |-> JS("c1"),
                                                  Lessons |-> JA(<<JS("l1")>>)])>>)])>>)])

TocNotAnObject == JN(5)

TocResponses ==
    {TocTwoSubtopics, TocSeparatorTitles, TocRepeatedTitles, TocNoSubtopics, TocNoLessons,
     ParseFailure, TocMainTopicAlias, TocCourseTitle, TocNotAnObject}

\* Replies of the LLM to a chapter prompt.
RichLesson ==
    JO([lessonInfo |-> JO([title |-> JS("L"), description |-> JS("ld")]),
        videoScript |-> JO([title |-> JS("V"), description |-> JS("vd")]),
        quizCards |-> JA(<<JO([question |-> JS("q"),
                               options |-> JA(<<JS("o1"), JS("o2")>>),
                               correctAnswer |-> JN(1)])>>)])

MinimalLesson == JO([title |-> JS("L"), content |-> JS("text"), quiz |-> JA(<<>>)])

ChapterRich == JO([lessons |-> JA(<<RichLesson>>)])
ChapterMinimal == JO([lessons |-> JA(<<MinimalLesson>>)])

ChapterResponses == {ChapterRich, ChapterMinimal, ParseFailure}

\* Chapter replies for the normalization on its own: lessons of the rich
\* format with every choice of its optional parts, lessons of the older
\* format with quiz items of several shapes, and replies without lessons.
RichOptionalKeys == {"memoryCards", "quizCards", "openEndedQuestion", "openEndedQuestions"}

RichPart(k) ==
    CASE k = "lessonInfo" -> JO([title |-> JS("L"), description |-> JS("ld")])
      [] k = "videoScript" -> JO([title |-> JS("V"), description |-> JS("vd")])
      [] k = "memoryCards" -> JA(<<JO([title |-> JS("m"), description |-> JS("md")])>>)
      [] k = "quizCards" -> JA(<<JO([question |-> JS("q"),
                                     options |-> JA(<<JS("o1"), JS("o2")>>),
                                     correctAnswer |-> JN(1)])>>)
      [] k = "openEndedQuestion" -> JO([title |-> JS("t"), description |-> JS("d")])
      [] OTHER -> JA(<<JO([title |-> JS("t")])>>)

RichLessonWith(keys) == JO([k \in keys \cup {"lessonInfo"} |-> RichPart(k)])

RichLessons ==
    {RichLessonWith(keys) : keys \in {ks \in SUBSET (RichOptionalKeys \cup {"videoScript"}) :
                                         ks \cap RichOptionalKeys # {}}}

RichLessonsEmptyCards ==
    {JO([lessonInfo |-> RichPart("lessonInfo"), memoryCards |-> JA(<<>>)]),
     JO([lessonInfo |-> RichPart("lessonInfo"), videoScript |-> RichPart("videoScript"),
         quizCards |-> JA(<<>>)])}

RichQuizOutOfRange ==
    JO([lessonInfo |-> RichPart("lessonInfo"), videoScript |-> RichPart("videoScript"),
        quizCards |-> JA(<<JO([question |-> JS("q"),
                               options |-> JA(<<JS("o1"), JS("o2")>>),
                               correctAnswer |-> JN(7)])>>)])

QuizItems ==
    {JO([question |-> JS("q"), options |-> JA(<<JS("o1"), JS("o2")>>), correctAnswer |-> JN(1)]),
     JO([question |-> JS("q"), options |-> JA(<<JS("o1"), JS("o2")>>)]),
     JO([question |-> JS("q"), options |-> JA(<<JS("o1"), JS("o2")>>), correctAnswer |-> JS("1")]),
     JO([question |-> JS("q"), options |-> JA(<<JS("o1"), JS("o2")>>), correctAnswer |-> JN(7)]),
     JO([question |-> JS("q"), options |-> JA(<<JS("o1"), JS("o2")>>), correctAnswer |-> JN(-1)]),
     JO([question |-> JS("q"), correctAnswer |-> JN(0)]),
     JO([Question |-> JS("q"), Options |-> JA(<<JS("o1"), JS("o2")>>), CorrectAnswer |-> JN(1)])}

MinimalQuizLessons ==
    {JO([title |-> JS("L"), content |-> JS("text"), videoScript |-> RichPart("videoScript"),
         quiz |-> JA(<<q>>)]) : q \in QuizItems}

LessonReplies ==
    {JO([lessons |-> JA(<<x>>)]) :
        x \in RichLessons \cup RichLessonsEmptyCards \cup MinimalQuizLessons
               \cup {RichQuizOutOfRange, MinimalLesson}}
    \cup {JO([lessons |-> JA(<<RichLessonWith(RichOptionalKeys \cup {"videoScript"}), y>>)]) :
            y \in {x \in RichLessons : IsUndef(Get(x, "videoScript"))}}
    \cup {ParseFailure,
          JO([lessons |-> JA(<<>>)]),
          JO([Lessons |-> JA(<<RichLessonWith({"memoryCards"})>>)])}

\* What a call of the LLM does: it throws, or it returns one of the replies.
LlmOutcomes(replies) ==
    {[threw |-> TRUE, data |-> JU]} \cup {[threw |-> FALSE, data |-> r] : r \in replies}

\* Arguments of invoke.
PresetToc == Toc(<<Sub("P", <<Chap("p1", <<JS("l1")>>)>>)>>)

Inputs ==
    {JO([topic |-> JS("X")]),
     JO([topic |-> JS("")]),
     JO([topic |-> JS("X"), context |-> JA(<<Doc>>)]),
     JO([topic |-> JS("X"),
         history |-> JA(<<HumanMessage(JS("hi")), AIMessage(JS("hello"))>>)]),
     JO([topic |-> JS("X"), toc |-> PresetToc]),
     JO([topic |-> JS("X"),
         generatedContent |-> JO([mainTopic |-> JS("Old"), description |-> JS("old"),
                                  subTopics |-> JA(<<>>)])]),
     JO([topic |-> JS("X"), error |-> JS("earlier error")])}

\* What searchVectorStore resolves to, after its .catch: the documents found,
\* or [] when the search failed.
SearchResults == {<<>>, <<Doc>>}

\* What a call of searchVectorStore does: it rejects, or it resolves to documents.
SearchOutcomes ==
    {[threw |-> TRUE, docs |-> <<>>]} \cup {[threw |-> FALSE, docs |-> d] : d \in SearchResults}

\* ------------------------------------------------------------------- state

VARIABLES
    run,        \* calls of invoke made so far
    pc,         \* where invoke is: "idle", "context", "toc", "content", "join", "done"
    input,      \* the argument of the current call
    cur,        \* the state the last completed stage returned
    result,     \* what invoke did: NoResult, Returned(state) or Threw
    tasks,      \* the subtopic tasks of the Content stage
    settled,    \* the indexes of the settled tasks, in the order they settled
    cache,      \* memoryCache of the Content stage's memory
    tocCache,   \* memoryCache of the TOC stage's memory
    calls,      \* collaborator calls of the current run
    ev,         \* what the collaborators did in the current run
    prev        \* what the previous run was given and did

vars == <<run, pc, input, cur, result, tasks, settled, cache, tocCache, calls, ev, prev>>

NoCalls == [search |-> 0, tocLlm |-> 0, lookup |-> 0, chSearch |-> 0, chLlm |-> 0, save |-> 0]
NoEvents ==
    [tocStage |-> "none",      \* how generateTOC ended (GenerateTOCResult.how)
     search |-> [how |-> "none", query |-> JU, k |-> 0],
                               \* retrieveContext's search: "skipped", "failed" or
                               \* "found", and the arguments of the call
     tocReply |-> JU,          \* the reply of the LLM to the TOC prompt
     cacheFault |-> FALSE,     \* a call of the memory threw
     unparseable |-> {},       \* the chapter positions (task, chapter index) whose
                               \* lookup found an entry JSON.parse rejects
     stageThrew |-> "none",    \* the stage whose exception reached invoke's catch
     ended |-> "none"]         \* the return of invoke that ended the run
NoPrev == [toc |-> JU, completed |-> FALSE, chLlm |-> 0]

Init ==
    /\ run = 0
    /\ pc = "idle"
    /\ input = JO(<<>>)
    /\ cur = JO(<<>>)
    /\ result = NoResult
    /\ tasks = <<>>
    /\ settled = <<>>
    /\ cache = <<>>
    /\ tocCache = <<>>
    /\ calls = NoCalls
    /\ ev = NoEvents
    /\ prev = NoPrev

Settled(t) == t.pcT \in {"resolved", "rejected"}

\* The run ended with the state the Content stage returned.
Completed == pc = "done" /\ ev.ended = "content"

\* invoke(input) is called, for the first time (pc = "idle") or again after
\* the run before it has ended and its tasks have settled: the state is built.
InvokeCall(inp) ==
    /\ \A i \in 1..Len(tasks) : Settled(tasks[i])
    /\ prev' = IF pc = "idle" THEN prev
               ELSE [toc |-> Get(cur, "toc"), completed |-> Completed, chLlm |-> calls.chLlm]
    /\ run' = run + 1
    /\ pc' = "context"
    /\ input' = inp
    /\ cur' = InitialState(inp)
    /\ result' = NoResult
    /\ tasks' = <<>>
    /\ settled' = <<>>
    /\ calls' = NoCalls
    /\ ev' = NoEvents
    /\ UNCHANGED <<cache, tocCache>>

Invoke(inp) == pc = "idle" /\ InvokeCall(inp)

InvokeAgain(inp) == pc = "done" /\ run < MaxRuns /\ InvokeCall(inp)

\* await retrieveContext(state)
RetrieveContext ==
    /\ pc = "context"
    /\ pc' = "toc"
    /\ IF ContextProvided(cur)
       THEN /\ ev' = [ev EXCEPT !.search = [how |-> "skipped", query |-> JU, k |-> 0]]
            /\ UNCHANGED <<cur, calls>>
       ELSE /\ \E out \in SearchOutcomes :
                 /\ cur' = RetrieveContextResult(cur, SearchCatch(out))
                 /\ ev' = [ev EXCEPT !.search = [how |-> IF out.threw THEN "failed"
                                                         ELSE "found",
                                                 query |-> Get(cur, "topic"),
                                                 k |-> SearchK]]
            /\ calls' = [calls EXCEPT !.search = @ + 1]
    /\ UNCHANGED <<run, input, result, tasks, settled, cache, tocCache, prev>>

\* await generateTOC(contextState), and the check of tocState.toc
GenerateTOC(replies) ==
    /\ pc = "toc"
    /\ \E llm \in LlmOutcomes(replies), saveOk \in BOOLEAN :
         LET r == GenerateTOCResult(cur, llm, saveOk) IN
         /\ calls' = [calls EXCEPT !.tocLlm = @ + 1,
                                   !.save = IF r.how \in {"ok", "save-threw"} THEN @ + 1
                                            ELSE @]
         /\ ev' = [ev EXCEPT !.tocStage = r.how,
                             !.tocReply = llm.data,
                             !.cacheFault = (r.how = "save-threw"),
                             !.stageThrew = IF r.how = "save-threw" THEN "toc" ELSE "none",
                             !.ended = IF r.how = "save-threw" THEN "threw"
                                       ELSE IF TocMissing(r.state) THEN "toc-missing"
                                       ELSE "none"]
         /\ tocCache' = IF r.how = "ok"
                        THEN saveContext(tocCache, TocSessionId,
                                         "TOC for " \o ToStr(Get(cur, "topic")),
                                         Stringify(Get(r.state, "toc")))
                        ELSE tocCache
         /\ IF r.how = "save-threw"
            THEN /\ result' = InvokeCatch(InitialState(input))
                 /\ pc' = "done"
                 /\ cur' = cur
            ELSE IF TocMissing(r.state)
            THEN /\ result' = TocMissingResult(r.state)
                 /\ pc' = "done"
                 /\ cur' = r.state
            ELSE /\ result' = result
                 /\ pc' = "content"
                 /\ cur' = r.state
    /\ UNCHANGED <<run, input, tasks, settled, cache, prev>>

\* generateChapterContent(tocState) up to await Promise.all: the toc is
\* recovered or found missing, and every subtopic task runs to its first await.
StartContentAt(at) ==
    /\ pc \in at
    /\ IF ~Truthy(Get(RecoverToc(cur), "toc"))
       THEN /\ result' = Returned(ContentTocMissingState(RecoverToc(cur)))
            /\ pc' = "done"
            /\ ev' = [ev EXCEPT !.ended = "content-toc-missing"]
            /\ UNCHANGED <<cur, tasks, settled>>
       ELSE /\ cur' = RecoverToc(cur)
            /\ tasks' = MapSeq(NewTask, Get(Get(RecoverToc(cur), "toc"), "subTopics").v)
            /\ settled' = SelectSeq([i \in 1..Len(tasks') |-> i],
                                    LAMBDA i : tasks'[i].pcT = "resolved")
            /\ pc' = "join"
            /\ UNCHANGED <<result, ev>>
    /\ UNCHANGED <<run, input, cache, tocCache, calls, prev>>

StartContentBeforeToc == StartContentAt({"toc", "content"})

\* invoke calls generateChapterContent(tocState) once generateTOC has returned
\* a state with a toc.
StartContent == StartContentAt({"content"})

\* A task's memory.loadMemoryVariables returns (or throws).
CacheRead(i) ==
    /\ tasks[i].pcT = "read"
    /\ calls' = [calls EXCEPT !.lookup = @ + 1]
    /\ \E ok \in BOOLEAN :
         IF ~ok
         THEN /\ tasks' = [tasks EXCEPT ![i].pcT = "rejected"]
              /\ settled' = Append(settled, i)
              /\ ev' = [ev EXCEPT !.cacheFault = TRUE]
         ELSE /\ tasks' = [tasks EXCEPT ![i] =
                    IF Truthy(CachedChapter(cache, tasks[i]))
                    THEN Pushed(tasks[i], CachedChapter(cache, tasks[i]),
                                [how |-> "hit", data |-> JU])
                    ELSE [tasks[i] EXCEPT !.pcT = "search"]]
              /\ settled' = IF tasks'[i].pcT = "resolved" THEN Append(settled, i)
                            ELSE settled
              /\ ev' = IF /\ Truthy(CachedEntry(cache, tasks[i]))
                          /\ ~ParseOk(CachedEntry(cache, tasks[i]))
                       THEN [ev EXCEPT !.unparseable = @ \cup {<<i, tasks[i].ci>>}]
                       ELSE ev
    /\ UNCHANGED <<run, pc, input, cur, result, cache, tocCache, prev>>

\* A task's searchVectorStore(...).catch(...) returns.
ChapterSearch(i) ==
    /\ tasks[i].pcT = "search"
    /\ tasks' = [tasks EXCEPT ![i].pcT = "llm"]
    /\ calls' = [calls EXCEPT !.chSearch = @ + 1]
    /\ UNCHANGED <<run, pc, input, cur, result, settled, cache, tocCache, ev, prev>>

\* A task's chapterChain.invoke returns or throws; the reply is normalized.
ChapterLlm(i, replies) ==
    /\ tasks[i].pcT = "llm"
    /\ \E llm \in LlmOutcomes(replies) :
         tasks' = [tasks EXCEPT
                     ![i].pcT = "save",
                     ![i].pending =
                         IF llm.threw THEN ChapterFromChainError(CurrentChapter(tasks[i]))
                         ELSE ChapterFromResponse(CurrentChapter(tasks[i]), llm.data),
                     ![i].log = Append(@, [how |-> IF llm.threw THEN "threw" ELSE "generated",
                                           data |-> llm.data])]
    /\ calls' = [calls EXCEPT !.chLlm = @ + 1]
    /\ UNCHANGED <<run, pc, input, cur, result, settled, cache, tocCache, ev, prev>>

\* A task's memory.saveContext returns (or throws); the chapter is pushed.
CacheSave(i) ==
    /\ tasks[i].pcT = "save"
    /\ calls' = [calls EXCEPT !.save = @ + 1]
    /\ \E ok \in BOOLEAN :
         IF ~ok
         THEN /\ tasks' = [tasks EXCEPT ![i].pcT = "rejected"]
              /\ settled' = Append(settled, i)
              /\ ev' = [ev EXCEPT !.cacheFault = TRUE]
              /\ UNCHANGED cache
         ELSE /\ cache' = saveContext(cache, ContentSessionId,
                                      MemoryKey(tasks[i].subtopic, CurrentChapter(tasks[i])),
                                      Stringify(tasks[i].pending))
              /\ tasks' = [tasks EXCEPT ![i] =
                    [Pushed(tasks[i], tasks[i].pending, [how |-> "skip", data |-> JU])
                     EXCEPT !.log = tasks[i].log]]
              /\ settled' = IF tasks'[i].pcT = "resolved" THEN Append(settled, i)
                            ELSE settled
              /\ UNCHANGED ev
    /\ UNCHANGED <<run, pc, input, cur, result, tocCache, prev>>

\* await Promise.all(subtopicPromises) settles: with the first rejection the
\* stage throws into the catch of invoke, with every task resolved the stage
\* returns and invoke returns contentState.
ContentSettles(thrown) ==
    /\ pc = "join"
    /\ pc' = "done"
    /\ IF \E i \in 1..Len(tasks) : tasks[i].pcT = "rejected"
       THEN /\ result' = thrown
            /\ ev' = [ev EXCEPT !.stageThrew = "content", !.ended = "threw"]
            /\ UNCHANGED cur
       ELSE /\ \A i \in 1..Len(tasks) : tasks[i].pcT = "resolved"
            /\ result' = Returned(ContentResult(cur, PromiseAll(tasks, settled)))
            /\ cur' = AssignSubTopics(cur, PromiseAll(tasks, settled))
            /\ ev' = [ev EXCEPT !.ended = "content"]
    /\ UNCHANGED <<run, input, tasks, settled, cache, tocCache, calls, prev>>

\* The stage called by invoke: its exception is caught by invoke's catch.
ContentJoin == ContentSettles(InvokeCatch(InitialState(input)))

\* The stage called on its own: its exception reaches the caller.
ContentReturn == ContentSettles(Threw)

Next ==
    \/ \E inp \in Inputs : Invoke(inp)
    \/ RetrieveContext
    \/ GenerateTOC(TocResponses)
    \/ StartContent
    \/ \E i \in 1..Len(tasks) : CacheRead(i)
    \/ \E i \in 1..Len(tasks) : ChapterSearch(i)
    \/ \E i \in 1..Len(tasks) : ChapterLlm(i, ChapterResponses)
    \/ \E i \in 1..Len(tasks) : CacheSave(i)
    \/ ContentJoin

\* One call of invoke in a fresh process.
Spec == Init /\ [][Next]_vars

\* Repeated calls of invoke with one topic: the caches of the earlier calls
\* are what the later calls find.
RerunInputs == {JO([topic |-> JS("X")])}
RerunTocResponses == {TocTwoSubtopics, TocRepeatedTitles}
RerunChapterResponses == {ChapterRich}

NextRerun ==
    \/ \E inp \in RerunInputs : Invoke(inp)
    \/ \E inp \in RerunInputs : InvokeAgain(inp)
    \/ RetrieveContext
    \/ GenerateTOC(RerunTocResponses)
    \/ StartContent
    \/ \E i \in 1..Len(tasks) : CacheRead(i)
    \/ \E i \in 1..Len(tasks) : ChapterSearch(i)
    \/ \E i \in 1..Len(tasks) : ChapterLlm(i, RerunChapterResponses)
    \/ \E i \in 1..Len(tasks) : CacheSave(i)
    \/ ContentJoin

SpecRerun == Init /\ [][NextRerun]_vars

\* One call of invoke in which every awaited call settles: the continuation
\* of an await runs once the promise it waits for has settled, and every
\* collaborator call (search, cache, LLM) returns or fails.
SpecLive ==
    /\ Init
    /\ [][Next]_vars
    /\ WF_vars(RetrieveContext)
    /\ WF_vars(GenerateTOC(TocResponses))
    /\ WF_vars(StartContent)
    /\ WF_vars(\E i \in 1..Len(tasks) : CacheRead(i))
    /\ WF_vars(\E i \in 1..Len(tasks) : ChapterSearch(i))
    /\ WF_vars(\E i \in 1..Len(tasks) : ChapterLlm(i, ChapterResponses))
    /\ WF_vars(\E i \in 1..Len(tasks) : CacheSave(i))
    /\ WF_vars(ContentJoin)

\* The normalization of a chapter reply on its own: the reply is normalized,
\* and the lessons it gave are normalized again as a reply.
InitLessons ==
    /\ run = 0
    /\ pc = "reply"
    /\ input \in LessonReplies
    /\ cur = input
    /\ result = NoResult
    /\ tasks = <<>>
    /\ settled = <<>>
    /\ cache = <<>>
    /\ tocCache = <<>>
    /\ calls = NoCalls
    /\ ev = NoEvents
    /\ prev = NoPrev

NormalizeReply ==
    /\ pc = "reply"
    /\ pc' = "normalized"
    /\ result' = Returned(NormalizeLessons(cur))
    /\ UNCHANGED <<run, input, cur, tasks, settled, cache, tocCache, calls, ev, prev>>

NormalizeAgain ==
    /\ pc = "normalized"
    /\ pc' = "renormalized"
    /\ cur' = JO([lessons |-> result.value])
    /\ result' = Returned(NormalizeLessons(JO([lessons |-> result.value])))
    /\ UNCHANGED <<run, input, tasks, settled, cache, tocCache, calls, ev, prev>>

NextLessons == NormalizeReply \/ NormalizeAgain

SpecLessons == InitLessons /\ [][NextLessons]_vars

\* The normalization of a TOC reply on its own: the reply carries the course
\* title under one of several keys (or under none) and an array of subtopics
\* under one of the alias keys of the alternative schema.
TocTitleCarriers == {"mainTopic", "MainTopic", "Main Topic", "Course Title", "courseTitle", "none"}

AliasSubtopicLists ==
    {<<Sub("A", <<Chap("c1", <<JS("l1")>>)>>)>>,
     <<Sub("A", <<Chap("c1", <<JS("l1")>>)>>), Sub("B", <<Chap("c2", <<JS("l2")>>)>>)>>,
     <<JO([Title |-> JS("A"), summary |-> JS("sd"),
           Sections |-> JA(<<JO([name |-> JS("c1"), Lessons |-> JA(<<JS("l1")>>)])>>)])>>}

TocTitlePart(carrier) ==
    CASE carrier \in AltObjectKeys ->
            JO([Title |-> JS("M"), Description |-> JS("D"), Subtopics |-> JA(<<>>)])
      [] OTHER -> JS("M")

TocAliasReply(carrier, key, subtopics) ==
    JO([k \in {key} \cup ({carrier} \ {"none"}) |->
          IF k = key THEN JA(subtopics) ELSE TocTitlePart(carrier)])

TocAliasReplies ==
    {TocAliasReply(c, k, q) : c \in TocTitleCarriers, k \in AltArrayKeys, q \in AliasSubtopicLists}

InitToc ==
    /\ run = 0
    /\ pc = "tocReply"
    /\ input = InitialState(JO([topic |-> JS("X")]))
    /\ cur \in TocAliasReplies
    /\ result = NoResult
    /\ tasks = <<>>
    /\ settled = <<>>
    /\ cache = <<>>
    /\ tocCache = <<>>
    /\ calls = NoCalls
    /\ ev = NoEvents
    /\ prev = NoPrev

NormalizeTocReply ==
    /\ pc = "tocReply"
    /\ pc' = "tocNormalized"
    /\ result' = Returned(NormalizeToc(cur, input))
    /\ UNCHANGED <<run, input, cur, tasks, settled, cache, tocCache, calls, ev, prev>>

NextToc == NormalizeTocReply

SpecToc == InitToc /\ [][NextToc]_vars

\* generateChapterContent called on its own, with a state that has no toc (and
\* a history of several shapes) or that has one, and with a cache that is
\* empty, holds a chapter, or holds an entry that is no JSON.
ContentHistories ==
    {<<>>,
     <<AIMessage(Stringify(PresetToc))>>,
     <<HumanMessage(JS("hi")), AIMessage(Stringify(PresetToc))>>,
     <<HumanMessage(JS("hi")), AIMessage(PresetToc)>>,
     <<HumanMessage(JS("hi")), AIMessage(JS("hello"))>>,
     <<HumanMessage(JS("hi")), AIMessage(Stringify(JO([mainTopic |-> JS("M")])))>>,
     <<HumanMessage(JS("hi")), AIMessage(JS("hello")),
       HumanMessage(JS("hi")), AIMessage(Stringify(PresetToc))>>}

ContentStates ==
    {JO([topic |-> JS("X"), history |-> JA(h)]) : h \in ContentHistories}
    \cup {JO([topic |-> JS("X"), toc |-> PresetToc, history |-> JA(<<>>)]),
          JO([topic |-> JS("X"), toc |-> PresetToc, history |-> JA(<<>>),
              generatedContent |-> JO([mainTopic |-> JS("Old"), description |-> JS("old"),
                                       subTopics |-> JA(<<>>)])])}

ContentCaches ==
    {<<>>,
     [k \in {getMemoryKey(ContentSessionId, "P-p1")} |-> JS("not json")],
     [k \in {getMemoryKey(ContentSessionId, "P-p1")} |->
         Stringify(Chap("p1", <<RichLesson>>))]}

InitContent ==
    /\ run = 1
    /\ pc = "content"
    /\ input \in ContentStates
    /\ cur = input
    /\ result = NoResult
    /\ tasks = <<>>
    /\ settled = <<>>
    /\ cache \in ContentCaches
    /\ tocCache = <<>>
    /\ calls = NoCalls
    /\ ev = NoEvents
    /\ prev = NoPrev

NextContent ==
    \/ StartContent
    \/ \E i \in 1..Len(tasks) : CacheRead(i)
    \/ \E i \in 1..Len(tasks) : ChapterSearch(i)
    \/ \E i \in 1..Len(tasks) : ChapterLlm(i, ChapterResponses)
    \/ \E i \in 1..Len(tasks) : CacheSave(i)
    \/ ContentReturn

SpecContent == InitContent /\ [][NextContent]_vars

\* ================================================================== claims

\* What invoke returned, by key.
Ret(k) == Get(result.value, k)

\* The input carries none of error, toc, generatedContent.
PlainInput == \A k \in {"error", "toc", "generatedContent"} : IsUndef(Get(input, k))

\* The positions <<i, j>> of the chapters of a TOC.
Positions(toc) ==
    UNION {{<<i, j>> : j \in 1..Len(Get(Get(toc, "subTopics").v[i], "chapters").v)} :
             i \in 1..Len(Get(toc, "subTopics").v)}

ChapterAt(toc, p) == Get(Get(toc, "subTopics").v[p[1]], "chapters").v[p[2]]

KeyAt(toc, p) == MemoryKey(Get(toc, "subTopics").v[p[1]], ChapterAt(toc, p))

\* ---- C1
\* C1: invoke never throws. Whatever the search, the LLM or the cache did
\* (a throw of a cache read or write included), a run that has ended has
\* returned a state object, and when the exception of a stage reached invoke
\* that state carries an error.
C1_InvokeNeverThrows ==
    /\ result.kind # "threw"
    /\ pc = "done" =>
         /\ result.kind = "returned"
         /\ IsObj(result.value)
         /\ ev.stageThrew # "none" => Truthy(Ret("error"))

\* A run in which the Content stage threw has ended.
C1_Witness == pc = "done" /\ ev.stageThrew = "content" /\ result.kind = "returned"

\* ---- C2
\* C2: when the LLM throws on the TOC call and the input carries no toc and
\* no generatedContent, the run has returned (not thrown) a state with error
\* set and generatedContent undefined, and the Content stage was never
\* started: no subtopic task, no cache lookup, no chapter search, no chapter
\* LLM call.
C2_TocFailureIsFatal ==
    (/\ ev.tocStage = "llm-threw"
     /\ IsUndef(Get(input, "toc"))
     /\ IsUndef(Get(input, "generatedContent")))
    => /\ pc = "done"
       /\ result.kind = "returned"
       /\ Truthy(Ret("error"))
       /\ IsUndef(Ret("generatedContent"))
       /\ tasks = <<>>
       /\ calls.lookup = 0 /\ calls.chSearch = 0 /\ calls.chLlm = 0

C2_Witness ==
    /\ pc = "done"
    /\ ev.tocStage = "llm-threw"
    /\ IsUndef(Get(input, "toc"))
    /\ IsUndef(Get(input, "generatedContent"))
    /\ calls.tocLlm = 1

\* ---- C3
\* C3: chapter isolation. A chapter carries the one error lesson of a failed
\* LLM call exactly when the LLM call of that chapter threw: the chapter whose
\* call threw holds that single lesson, every other chapter is produced
\* normally, and the state the Content stage returns carries generatedContent
\* and no error.
C3_ChapterIsolation ==
    /\ \A i \in 1..Len(tasks) : \A j \in 1..Len(tasks[i].chapters) :
         (tasks[i].log[j].how = "threw")
           <=> (Get(tasks[i].chapters[j], "lessons") = JA(<<ChainErrorLesson>>))
    /\ (ev.ended = "content" /\ IsUndef(Get(input, "error")))
         => Truthy(Ret("generatedContent")) /\ IsUndef(Ret("error"))

\* ---- C4
\* C4: the TOC the TOC stage hands to the Content stage has at least one
\* subtopic and every chapter of it has at least one lesson, whatever the
\* LLM replied (the parse-failure sentinel included).
C4_NonEmptyToc ==
    ev.tocStage = "ok" =>
      /\ Len(Get(Get(cur, "toc"), "subTopics").v) >= 1
      /\ \A p \in Positions(Get(cur, "toc")) :
           Len(Get(ChapterAt(Get(cur, "toc"), p), "lessons").v) >= 1

\* ---- C5
\* C5: the subtopics of generatedContent are in the order of toc.subTopics,
\* whatever the order in which the subtopic tasks settled: entry i is the
\* processed form of the subtopic at position i of the TOC.
C5_OrderPreserved ==
    ev.ended = "content" =>
      /\ Len(Ret("generatedContent").v["subTopics"].v) = Len(Get(Ret("toc"), "subTopics").v)
      /\ \A i \in 1..Len(Get(Ret("toc"), "subTopics").v) :
           /\ tasks[i].subtopic = Get(Ret("toc"), "subTopics").v[i]
           /\ Ret("generatedContent").v["subTopics"].v[i] = ProcessedSubtopic(tasks[i])
           /\ Get(Ret("generatedContent").v["subTopics"].v[i], "title")
                = Get(Get(Ret("toc"), "subTopics").v[i], "title")

\* The second subtopic settled before the first, with different titles.
C5_Witness ==
    /\ ev.ended = "content"
    /\ settled = <<2, 1>>
    /\ Get(tasks[1].subtopic, "title") # Get(tasks[2].subtopic, "title")
    /\ Len(tasks[1].chapters) >= 1

\* ---- C6
\* C6: a chapter whose key has a cached entry makes no LLM call and the cached
\* chapter is used; so of two runs with the same topic and the same TOC, the
\* first makes exactly one LLM call per chapter and the second makes none.
C6_CacheShortCircuit ==
    [][/\ \A i \in 1..Len(tasks) :
            (/\ tasks[i].pcT = "read"
             /\ i \in 1..Len(tasks')
             /\ tasks'[i] # tasks[i]
             /\ tasks'[i].pcT # "rejected"
             /\ Truthy(CachedChapter(cache, tasks[i])))
            => /\ tasks'[i].chapters = Append(tasks[i].chapters, CachedChapter(cache, tasks[i]))
               /\ calls'.chLlm = calls.chLlm
       /\ (ev'.ended = "content" /\ run' = 1)
            => calls'.chLlm = Cardinality(Positions(Get(cur', "toc")))
       /\ (ev'.ended = "content" /\ run' = 2 /\ prev'.completed
           /\ prev'.toc = Get(cur', "toc"))
            => calls'.chLlm = 0]_vars

\* ---- C7
\* C7: two different chapter positions of one TOC have different cache keys
\* (titles may repeat and may contain "-"), so no two tasks are ever at work
\* on the same key.
C7_DistinctKeys ==
    ev.tocStage = "ok" =>
      /\ \A p, q \in Positions(Get(cur, "toc")) :
           p # q => KeyAt(Get(cur, "toc"), p) # KeyAt(Get(cur, "toc"), q)
      /\ \A i, k \in 1..Len(tasks) :
           (i # k /\ ~Settled(tasks[i]) /\ ~Settled(tasks[k]))
             => MemoryKey(tasks[i].subtopic, CurrentChapter(tasks[i]))
                  # MemoryKey(tasks[k].subtopic, CurrentChapter(tasks[k]))

\* ---- C8
\* C8: a throw of a cache read or write is caught and degraded (a miss, a
\* skipped write): a run in which a call of the cache threw ends like a run
\* without the fault, with generatedContent and no error.
C8_CacheFaultDegraded ==
    (pc = "done" /\ ev.cacheFault /\ PlainInput)
      => Truthy(Ret("generatedContent")) /\ ~Truthy(Ret("error"))

\* ---- C9
\* C9: for an input without error, toc and generatedContent, the state a run
\* returns is a success (generatedContent populated, no error) or a failure
\* (error set, no generatedContent), never both and never neither.
C9_SuccessXorFailure ==
    (pc = "done" /\ PlainInput) =>
      /\ result.kind = "returned"
      /\ Truthy(Ret("generatedContent")) # Truthy(Ret("error"))

\* A plain input ran through the three stages to the success form.
C9_Witness ==
    /\ pc = "done" /\ PlainInput
    /\ ev.ended = "content"
    /\ Truthy(Ret("generatedContent")) /\ ~Truthy(Ret("error"))
    /\ calls.chLlm >= 1

\* ---- C10
\* C10: when a stage throws after earlier stages succeeded, the returned
\* state has error set and still holds what the earlier stages produced:
\* context, toc, mainTopic, description and history of the state the last
\* finished stage returned.
C10_PartialStateKept ==
    (pc = "done" /\ ev.stageThrew # "none") =>
      /\ Truthy(Ret("error"))
      /\ \A k \in {"context", "toc", "mainTopic", "description", "history"} :
           Ret(k) = Get(cur, k)

\* ---- C11
\* C11: the stages run in the order Context, TOC, Content, each at most
\* once: one search and one TOC LLM call at most, no TOC LLM call before
\* retrieveContext has returned, and no subtopic task, chapter cache lookup,
\* chapter search or chapter LLM call before generateTOC has returned its state.
C11_StageOrder ==
    /\ calls.search <= 1 /\ calls.tocLlm <= 1
    /\ (pc = "context") => (calls.tocLlm = 0 /\ ev.tocStage = "none" /\ ev.search.how = "none")
    /\ (calls.tocLlm > 0 \/ ev.tocStage # "none") => ev.search.how # "none"
    /\ (pc \in {"context", "toc"})
         => (tasks = <<>> /\ calls.lookup = 0 /\ calls.chSearch = 0 /\ calls.chLlm = 0)
    /\ (tasks # <<>> \/ calls.lookup > 0 \/ calls.chSearch > 0 \/ calls.chLlm > 0)
         => (ev.tocStage \in {"ok", "llm-threw", "invalid"} /\ pc \in {"join", "done"})

\* A run went through the three stages and called the LLM for a chapter.
C11_Witness ==
    /\ pc = "done" /\ ev.ended = "content"
    /\ calls.search = 1 /\ calls.tocLlm = 1 /\ calls.chLlm >= 1

\* ---- C15
\* C15: retrieveContext does not throw and returns a state whose context is
\* not null or undefined; when the search failed the context is the empty
\* list and every other field, error included, is as in the state it was given.
C15_RetrieveContextTotal ==
    pc = "toc" =>
      /\ result.kind # "threw"
      /\ CanRead(Get(cur, "context"))
      /\ ev.search.how = "failed" =>
           /\ Get(cur, "context") = JA(<<>>)
           /\ IsUndef(Get(input, "error")) => IsUndef(Get(cur, "error"))
           /\ \A k \in (DOMAIN cur.v \cup DOMAIN InitialState(input).v) \ {"context"} :
                Get(cur, k) = Get(InitialState(input), k)

\* retrieveContext returned after a failed search.
C15_Witness == pc = "toc" /\ ev.search.how = "failed" /\ calls.search = 1

\* ---- C16
\* C16: with a non-empty context in the incoming state retrieveContext
\* returns the state unchanged and does not call the search; otherwise it
\* calls the search exactly once, with the topic and 5.
C16_ProvidedContextSkipsSearch ==
    pc = "toc" =>
      IF IsArr(Get(InitialState(input), "context"))
         /\ Len(Get(InitialState(input), "context").v) > 0
      THEN cur = InitialState(input) /\ calls.search = 0 /\ ev.search.how = "skipped"
      ELSE /\ calls.search = 1
           /\ ev.search.how \in {"failed", "found"}
           /\ ev.search.query = Get(InitialState(input), "topic")
           /\ ev.search.k = 5

\* retrieveContext returned a state that came with a document.
C16_Witness ==
    /\ pc = "toc"
    /\ Get(input, "context") = JA(<<Doc>>)
    /\ calls.search = 0

\* ---- C14
\* C14: the TOC reply {"MainTopic": {"Title": "X", "Description": "Y",
\* "Subtopics": []}} is converted to mainTopic X, description Y, subTopics [],
\* and then the synthetic stub applies: the TOC handed to the Content stage
\* has exactly one subtopic, titled "Understanding X".
C14_EmptyAliasGetsStub ==
    (ev.tocStage = "ok" /\ ev.tocReply = TocMainTopicAlias /\ Get(cur, "topic") = JS("X")) =>
      /\ AltNormalized(AlternativeTocSchemaData(ev.tocReply), cur)
           = JO([mainTopic |-> JS("X"), description |-> JS("Y"), subTopics |-> JA(<<>>)])
      /\ Len(Get(Get(cur, "toc"), "subTopics").v) = 1
      /\ Get(Get(Get(cur, "toc"), "subTopics").v[1], "title") = JS("Understanding X")

\* ---- C17
\* C17: the chapters of one subtopic are processed one after another while
\* the subtopics run concurrently: a task has one chapter in progress, the
\* chapter at position ci, and every chapter before it has been appended to
\* the task's result; a reply is pending for at most that chapter; the LLM
\* calls outstanding at one moment are no more than the subtopics.
C17_ChaptersSequential ==
    /\ \A i \in 1..Len(tasks) :
         /\ Len(tasks[i].chapters) <= Len(Get(tasks[i].subtopic, "chapters").v)
         /\ tasks[i].pcT # "resolved" => tasks[i].ci = Len(tasks[i].chapters) + 1
         /\ tasks[i].pcT = "resolved"
              => Len(tasks[i].chapters) = Len(Get(tasks[i].subtopic, "chapters").v)
         /\ Len(tasks[i].log) - Len(tasks[i].chapters) \in {0, 1}
         /\ (Len(tasks[i].log) > Len(tasks[i].chapters) \/ Truthy(tasks[i].pending))
              => tasks[i].pcT \in {"save", "rejected"}
         /\ tasks[i].pcT = "save" => Len(tasks[i].log) = Len(tasks[i].chapters) + 1
    /\ tasks # <<>> =>
         Cardinality({i \in 1..Len(tasks) : tasks[i].pcT = "llm"})
           <= Len(Get(Get(cur, "toc"), "subTopics").v)

\* Two subtopic tasks wait for the LLM at once, one of them for its second chapter.
C17_Witness ==
    \E i, k \in 1..Len(tasks) :
      /\ i # k
      /\ tasks[i].pcT = "llm" /\ tasks[k].pcT = "llm"
      /\ tasks[i].ci = 2 /\ Len(tasks[i].chapters) = 1

\* ---- C18
\* C18: once invoke has returned no work of the run is outstanding: no
\* subtopic task makes a cache, search or LLM call or writes a cache entry
\* after the result or the failure was handed to the caller.
C18_NoWorkAfterReturn ==
    [][pc = "done" => (calls' = calls /\ cache' = cache)]_vars

C20_MissPathHasLesson ==
    \A i \in 1..Len(tasks) : \A j \in 1..Len(tasks[i].chapters) :
      tasks[i].log[j].how \in {"generated", "threw"}
        => Len(Get(tasks[i].chapters[j], "lessons").v) >= 1

\* ---- C12
\* A lesson of the rich form: a lessonInfo and at least one of memoryCards,
\* quizCards, openEndedQuestion, openEndedQuestions (videoScript optional).
IsRichForm(lesson) ==
    /\ IsObj(lesson)
    /\ IsObj(Get(lesson, "lessonInfo"))
    /\ \E k \in RichOptionalKeys : ~IsUndef(Get(lesson, k))

\* The reply given to the normalization holds lessons, all of the rich form.
InputAllRich ==
    /\ IsArr(Get(input, "lessons"))
    /\ Len(Get(input, "lessons").v) >= 1
    /\ \A i \in 1..Len(Get(input, "lessons").v) : IsRichForm(Get(input, "lessons").v[i])

C13_QuizBounds ==
    pc = "normalized" =>
      \A i \in 1..Len(result.value.v) :
        IsArr(Get(result.value.v[i], "quizCards")) =>
          \A j \in 1..Len(Get(result.value.v[i], "quizCards").v) :
            LET q == Get(result.value.v[i], "quizCards").v[j] IN
            /\ IsNum(Get(q, "correctAnswer"))
            /\ IsArr(Get(q, "options"))
            /\ 0 <= Get(q, "correctAnswer").v
            /\ Get(q, "correctAnswer").v < Len(Get(q, "options").v)
            /\ (/\ IsArr(Get(Get(input, "lessons").v[i], "quiz"))
                /\ \A k \in {"correctAnswer", "CorrectAnswer", "correct"} :
                      ~IsNum(Get(Get(Get(input, "lessons").v[i], "quiz").v[j], k)))
               => Get(q, "correctAnswer") = JN(0)

\* ---- C21
\* A lesson of the older shape with exactly title, content and quiz.
IsMinimalForm(lesson) ==
    /\ IsObj(lesson)
    /\ DefinedKeys(lesson) = {"title", "content", "quiz"}
    /\ IsStr(Get(lesson, "title")) /\ IsStr(Get(lesson, "content"))
    /\ IsArr(Get(lesson, "quiz"))

\* C21: a reply whose lessons have the minimal shape {title, content, quiz}
\* is converted by the permissive tier: one converted lesson per incoming
\* lesson, lessonInfo.title the lesson's title, memoryCards a single card
\* whose description is the lesson's content, quizCards one item per quiz
\* item in the same order, openEndedQuestion the fixed feedback question.
C21_MinimalLessonConverted ==
    (/\ pc = "normalized"
     /\ IsArr(Get(input, "lessons"))
     /\ Len(Get(input, "lessons").v) > 0
     /\ \A i \in 1..Len(Get(input, "lessons").v) : IsMinimalForm(Get(input, "lessons").v[i]))
    => /\ Len(result.value.v) = Len(Get(input, "lessons").v)
       /\ \A i \in 1..Len(Get(input, "lessons").v) :
            LET lesson == Get(input, "lessons").v[i]
                out == result.value.v[i] IN
            /\ Get(Get(out, "lessonInfo"), "title") = Get(lesson, "title")
            /\ IsArr(Get(out, "memoryCards"))
            /\ Len(Get(out, "memoryCards").v) = 1
            /\ Get(Get(out, "memoryCards").v[1], "description") = Get(lesson, "content")
            /\ IsArr(Get(out, "quizCards"))
            /\ Len(Get(out, "quizCards").v) = Len(Get(lesson, "quiz").v)
            /\ Get(out, "openEndedQuestion") = FeedbackQuestion

\* ---- C22
\* The array of subtopics a reply carries under one of the alias keys.
AliasArrayOf(reply) == Get(reply, CHOOSE k \in AltArrayKeys : IsArr(Get(reply, k)))

\* C22: for a TOC reply that fails the strict schema, a subtopic array under
\* subtopics, Subtopics, topics, Topics, Sub-Topics or sub-topics yields one
\* normalized subtopic per element, in order, whichever key (mainTopic,
\* MainTopic, Main Topic, Course Title, courseTitle, or none) carries the
\* course title.
C22_AliasesIndependent ==
    (pc = "tocNormalized" /\ ~TocSchemaOk(cur)) =>
      /\ IsArr(Get(result.value, "subTopics"))
      /\ Len(Get(result.value, "subTopics").v) = Len(AliasArrayOf(cur).v)
      /\ \A i \in 1..Len(AliasArrayOf(cur).v) :
            Get(Get(result.value, "subTopics").v[i], "title")
              = Or2(Get(AliasArrayOf(cur).v[i], "title"), Get(AliasArrayOf(cur).v[i], "Title"))

\* ---- C23
\* The last message of the history the stage was given holds a JSON document
\* (or an object) that validates as a TOC.
LastMessageHoldsToc(state) ==
    LET h == Get(state, "history") IN
    /\ IsArr(h) /\ Len(h.v) > 0
    /\ LET c == Get(h.v[Len(h.v)], "content") IN
       \/ IsStr(c) /\ ParseOk(c) /\ TocSchemaOk(Parse(c))
       \/ TocSchemaOk(c)

\* C23: when generateChapterContent is called with toc absent, it adopts the
\* TOC held by the last message of history (with mainTopic and description)
\* and goes on to generate content, for every history with such a last
\* message; otherwise it returns the state with the error "TOC data
\* missing..." set, without generatedContent and without any cache, search
\* or LLM call.
C23_TocRecoveredFromHistory ==
    (~Truthy(Get(input, "toc")) /\ pc # "content") =>
      IF LastMessageHoldsToc(input)
      THEN /\ TocSchemaOk(Get(cur, "toc"))
           /\ Get(cur, "mainTopic") = Get(Get(cur, "toc"), "mainTopic")
           /\ Get(cur, "description") = Get(Get(cur, "toc"), "description")
           /\ ev.ended # "content-toc-missing"
           /\ Len(tasks) = Len(Get(Get(cur, "toc"), "subTopics").v)
      ELSE /\ pc = "done"
           /\ result.kind = "returned"
           /\ Truthy(Get(result.value, "error"))
           /\ IsUndef(Get(result.value, "generatedContent"))
           /\ calls = NoCalls

\* ---- C24
\* C24: a cache entry that cannot be parsed as JSON is treated as a miss: the
\* chapter is generated through exactly one LLM call, and the entry under
\* its key is then overwritten with the serialization of the newly
\* normalized chapter, so that the next lookup of the key is a hit.
C24_UnparseableEntryIsMiss ==
    /\ [](\A e \in ev.unparseable :
            /\ Len(tasks[e[1]].log) >= e[2] =>
                  tasks[e[1]].log[e[2]].how \in {"generated", "threw"}
            /\ Len(tasks[e[1]].chapters) >= e[2] =>
                  /\ calls.chLlm >= 1
                  /\ Truthy(loadMemoryVariables(cache, ContentSessionId,
                         MemoryKey(tasks[e[1]].subtopic,
                                   Get(tasks[e[1]].subtopic, "chapters").v[e[2]])))
                  /\ ParseOk(loadMemoryVariables(cache, ContentSessionId,
                         MemoryKey(tasks[e[1]].subtopic,
                                   Get(tasks[e[1]].subtopic, "chapters").v[e[2]]))))
    /\ [][\A i \in 1..Len(tasks) :
            /\ (tasks[i].pcT = "llm" /\ tasks'[i].pcT # "llm") =>
                  (tasks'[i].pcT = "save" /\ calls'.chLlm = calls.chLlm + 1)
            /\ (tasks[i].pcT = "save" /\ tasks'[i].pcT \notin {"save", "rejected"}) =>
                  /\ calls'.chLlm = calls.chLlm
                  /\ CachedEntry(cache', tasks[i]) = Stringify(tasks'[i].chapters[tasks[i].ci])
                  /\ tasks'[i].chapters[tasks[i].ci] = tasks[i].pending]_vars

\* The only chapter of the TOC found an entry that is no JSON, was generated
\* by the LLM and was saved: the entry is its serialization.
C24_Witness ==
    /\ pc = "done" /\ ev.ended = "content"
    /\ ev.unparseable = {<<1, 1>>}
    /\ tasks[1].log[1].how = "generated"
    /\ calls.chLlm = 1
    /\ cache[getMemoryKey(ContentSessionId, "P-p1")] = Stringify(tasks[1].chapters[1])

\* ---- C25
\* The chapter positions for which the LLM has been called.
LlmPositions ==
    {p \in UNION {{<<i, c>> : c \in 1..Len(tasks[i].log)} : i \in 1..Len(tasks)} :
        tasks[p[1]].log[p[2]].how \in {"generated", "threw"}}

\* C25: in any run the LLM is called at most once for the TOC and at most
\* once per chapter position (exactly once for a position that misses the
\* cache, never for a hit); a call that failed or returned an unusable
\* reply is never repeated within the run.
C25_AtMostOneLlmCall ==
    /\ calls.tocLlm <= 1
    /\ (ev.tocStage \in {"llm-threw", "invalid"}) => calls.tocLlm = 1
    /\ calls.chLlm = Cardinality(LlmPositions)
    /\ \A i \in 1..Len(tasks) :
          /\ Len(tasks[i].log) <= Len(Get(tasks[i].subtopic, "chapters").v)
          /\ Len(tasks[i].chapters) <= Len(tasks[i].log)

\* A run ended with its first chapter generated by a call that threw or that
\* returned an unusable reply, and its second chapter served from the cache.
C25_Witness ==
    /\ Completed
    /\ calls.tocLlm = 1 /\ calls.chLlm = 1
    /\ \E i \in 1..Len(tasks) :
          /\ Len(tasks[i].log) = 2
          /\ \/ tasks[i].log[1].how = "threw"
             \/ tasks[i].log[1].data = ParseFailure
          /\ tasks[i].log[2].how = "hit"

\* ---- C26
\* C26: no stage mutates the state object it receives or an object reachable
\* from it (a generatedContent object already present included): when
\* generateChapterContent returns, the state it was given is field for
\* field what it was before the call.
C26_InputStateUntouched ==
    [][(pc = "join" /\ pc' = "done" /\ result'.kind = "returned" /\ ev'.ended = "content")
         => cur' = cur]_vars

\* ---- C27
\* C27: when every collaborator call returns or fails, every run reaches a
\* terminal state, in which invoke has returned a state with
\* generatedContent or with error, for every TOC and every pattern of
\* collaborator failures; the Content stage returns only after all the
\* subtopic tasks have resolved.
C27_RunTerminates ==
    /\ (pc = "context") ~> (pc = "done")
    /\ [](pc = "done" =>
            /\ result.kind = "returned"
            /\ \/ Truthy(Get(result.value, "generatedContent"))
               \/ Truthy(Get(result.value, "error")))
    /\ [](Completed => \A i \in 1..Len(tasks) : tasks[i].pcT = "resolved")

\* The Content stage returned after two subtopic tasks had resolved, one of
\* them with a chapter whose LLM call threw.
C27_Witness ==
    /\ Completed
    /\ Len(tasks) = 2
    /\ \A i \in 1..2 : tasks[i].pcT = "resolved"
    /\ \E i \in 1..2 : \E c \in 1..Len(tasks[i].log) : tasks[i].log[c].how = "threw"
    /\ Truthy(Get(result.value, "generatedContent"))

\* ---- C28
\* C28: when the Content stage completes, the cache agrees with the result:
\* for every chapter position of the TOC the entry under the chapter's key
\* is the JSON serialization of the chapter placed at that position in
\* generatedContent, chapters holding an error lesson included.
C28_CacheAgreesWithResult ==
    Completed =>
      \A p \in Positions(Ret("toc")) :
        loadMemoryVariables(cache, ContentSessionId, KeyAt(Ret("toc"), p))
          = Stringify(ChapterAt(Ret("generatedContent"), p))

\* ---- C29
\* C29: when generateTOC ends in error (the LLM call threw, or the
\* normalized TOC failed the final check of mainTopic and subTopics), the
\* state it returns differs from the state it was given only in the error
\* field: toc, mainTopic, description, context and history are unchanged,
\* and nothing has been written to the cache.
C29_TocErrorChangesOnlyError ==
    [][(pc = "toc" /\ ev'.tocStage \in {"llm-threw", "invalid"}) =>
         /\ Truthy(Get(cur', "error"))
         /\ \A k \in (DOMAIN cur.v \cup DOMAIN cur'.v) \ {"error"} : Get(cur', k) = Get(cur, k)
         /\ \A k \in {"toc", "mainTopic", "description", "context", "history"} :
               Get(cur', k) = Get(cur, k)
         /\ tocCache' = tocCache
         /\ cache' = cache
         /\ calls'.save = calls.save]_vars

\* The TOC stage ended in error on a state that came with documents found by
\* the search, or with a toc of its own, and the cache is empty.
C29_Witness ==
    /\ ev.tocStage \in {"llm-threw", "invalid"}
    /\ pc \in {"content", "done"}
    /\ Truthy(Get(cur, "error"))
    /\ \/ Get(cur, "context") = JA(<<Doc>>)
       \/ Get(cur, "toc") = PresetToc
    /\ tocCache = <<>>

\* ---- C30
\* history of a state ([] when it has none).
HistoryOf(state) == Or2(Get(state, "history"), JA(<<>>)).v

\* h2 is h1 followed by exactly one human/AI pair.
OnePairAppended(h1, h2) ==
    /\ Len(h2) = Len(h1) + 2
    /\ SubSeq(h2, 1, Len(h1)) = h1
    /\ Get(h2[Len(h1) + 1], "role") = JS("human")
    /\ Get(h2[Len(h1) + 2], "role") = JS("ai")

\* C30: history is append-only across the stages: a successful TOC stage
\* returns the history it was given followed by exactly one human/AI pair
\* whose AI message is the serialized normalized TOC, the same string it
\* stores in the cache under "TOC for <topic>"; the Content stage returns
\* the history it was given followed by exactly one further pair, whatever
\* the number of subtopics and chapters; no stage removes or rewrites an
\* earlier message.
C30_HistoryAppendOnly ==
    [][/\ (pc = "toc" /\ ev'.tocStage = "ok") =>
            /\ OnePairAppended(HistoryOf(cur), HistoryOf(cur'))
            /\ Get(HistoryOf(cur')[Len(HistoryOf(cur')) ], "content")
                  = Stringify(Get(cur', "toc"))
            /\ Get(HistoryOf(cur')[Len(HistoryOf(cur'))], "content")
                  = loadMemoryVariables(tocCache', TocSessionId,
                                        "TOC for " \o ToStr(Get(cur, "topic")))
       /\ (pc = "join" /\ ev'.ended = "content") =>
            OnePairAppended(HistoryOf(cur), HistoryOf(result'.value))
       /\ (pc \in {"context", "toc", "content", "join"}) =>
            /\ Len(HistoryOf(cur')) >= Len(HistoryOf(cur))
            /\ SubSeq(HistoryOf(cur'), 1, Len(HistoryOf(cur))) = HistoryOf(cur)]_vars

\* A run that was given a history of two messages ended with two subtopics
\* and with six messages: the two it was given, the pair of the TOC stage
\* and the pair of the Content stage.
C30_Witness ==
    /\ Completed
    /\ Len(HistoryOf(input)) = 2
    /\ Len(tasks) = 2
    /\ Len(HistoryOf(result.value)) = 6
    /\ SubSeq(HistoryOf(result.value), 1, 2) = HistoryOf(input)

====
